---- MODULE Spec2Model ----
(***************************************************************************)
(* The particle effects engine of the birthday scene, in its four source   *)
(* variants:                                                               *)
(*   "sm"    src/js/sceneManager.js (the first SceneManager of             *)
(*           src/js/main.js, lines 5-791, is the same code)                *)
(*   "enh"   the enhanced SceneManager of src/js/main.js (lines 1345-2271) *)
(*   "scene" src/js/scene/SceneManager.js                                  *)
(*   "app"   BirthdayApp of src/unnamed/part_001 (the SceneManager of      *)
(*           src/unnamed/part_000 has the same updateParticles)            *)
(*                                                                         *)
(* Numbers.  material.opacity is an IEEE-754 double and is modelled as     *)
(* one: a value in [0,1] is an exact multiple of 2^-59, held in three      *)
(* limbs of 20 bits, and every subtraction rounds to 53 significant bits,  *)
(* ties to even, as the hardware does.  deltaTime is a power of two        *)
(* seconds, 2^-n (written n, n < 10), so that deltaTime * rate is exact,   *)
(* or one of the caps of the render loops, 0.05 s and 0.033 s (written in  *)
(* ms, 50 and 33), whose products are the doubles listed.  Positions and   *)
(* velocities are fixed point, in hundredths of a scene unit (per second), *)
(* truncated toward zero.  Rotation is written and never read: a pool      *)
(* carries it, as the number of frames each particle has turned through,   *)
(* in SpecFrames only.                                                     *)
(*                                                                         *)
(* Frames.  update is the method update(deltaTime)/updateParticles, taken  *)
(* with the deltaTime it is handed.  Where operations interleave freely    *)
(* the frames last 1 s and 2 s, so that a burst lives for a handful of     *)
(* frames; the runs of SpecFade use frames of 1/32 s and 1/64 s, which the *)
(* render loops pass on as they are.                                       *)
(*                                                                         *)
(* Storms.  triggerConfettiStorm of the enhanced SceneManager only defers  *)
(* triggerMegaConfetti calls; the pool states they reach are those of      *)
(* TriggerMegaConfettiEnh, and its waves are followed in SpecStorm.        *)
(*                                                                         *)
(* The page.  Around the engine the model follows, each in the             *)
(* specifications that are about it and switched off in the others: the    *)
(* repeating gsap timeline of BirthdayApp (SpecCycle), BirthdayApp.init()  *)
(* and its loading screen (SpecLoading), the camera and cameraShake        *)
(* (SpecShake, SpecUnmount), the bootstrap of part_001 (SpecBoot), the     *)
(* falling hearts (SpecHearts) and the clicks on balloons and candles      *)
(* (SpecClicks).  Timers of all of them wait in the one queue of           *)
(* window.setTimeout; callbacks that close over values carry them.         *)
(***************************************************************************)
EXTENDS Integers, Sequences, FiniteSets, TLC

VARIABLES
    variant,     \* which source variant this behaviour runs
    isAnimating, \* this.isAnimating: the render loop runs; dispose() clears it
    particles,   \* objects.particles: the pool, a sequence of particle records
    timers,      \* pending setTimeout callbacks, ordered by remaining delay
    visible,     \* .visible of objects.balloons / cake / text / stars
    lastOp,      \* history: the operation that produced this state
    lastDt,      \* history: {deltaTime} of that operation when it is an update
    run,         \* history: the updates, all of one deltaTime, since a lone burst
    resets,      \* history: quickReset calls made in a row just now, up to 2
    timeline,    \* BirthdayApp.timeline: the next call of the gsap timeline and
                 \* the ms until it is due; NoTimeline where no timeline runs
    app,         \* BirthdayApp: where init() stands, isLoaded, the error container,
                 \* progress of the loading screen; history: the updateProgress
                 \* steps taken and the showMainApp calls made
    document,    \* the page of part_001: document.readyState, whether the script
                 \* has run and DOMContentLoaded has fired, its listeners; history:
                 \* the BirthdayApps constructed and the render loops started
    hearts,      \* the falling hearts: this.heartInterval, the interval timers that
                 \* run, the hearts in the container; history: hearts made, calls
                 \* of startFallingHearts, stopped since the last start, a heart
                 \* was added while stopped
    props,       \* the balloons and candle flames of src/js/scene/SceneManager.js:
                 \* userData.popped, userData.lit, the balloons taken out of the
                 \* scene; history: 'balloonPop' callbacks and bursts per balloon,
                 \* 'candleBlow' callbacks per candle, a click was ignored
    calls,       \* history: for each pending timer, the particles that the trigger
                 \* call which set it activated and no later call has activated since
    camera       \* this.camera: whether it is followed, the reference (dispose()
                 \* sets it to null), camera.position; history: the position when
                 \* the first outstanding cameraShake was called, a callback has
                 \* thrown, the cameraShake calls made

\* the state of the page around the particle engine
page == <<timeline, app, document, hearts, props>>

\* the state that the operations of the particle engine leave alone
host == <<page, calls, camera>>

vars == <<variant, isAnimating, particles, timers, visible, lastOp, lastDt, run, resets,
          host>>

----------------------------------------------------------------------------
(* Bounds of the model *)

\* pending timers a confetti storm may find and add its waves to
MaxTimers == 5

\* frames a particle is followed turning through
MaxTurns == 3

\* pending auto-clear timers the enhanced triggers let accumulate
MaxAutoClears == 2

\* pending timers a storm of the enhanced SceneManager may find and add its
\* waves to
MaxTimersEnh == 6

\* cameraShake calls made in one behaviour
MaxShakes == 2

\* startFallingHearts calls made in one behaviour
MaxStarts == 2

\* hearts made in one behaviour: the ten waves of one start
MaxHearts == 30

\* the balloons and the candles that are followed, of the 30 and the 16
MaxBalloons == 2

MaxCandles == 2

\* what clock.getDelta() returns in a render loop, as n for 2^-n seconds: a
\* frame of 1/32 s and a stall of 1 s
FrameIntervals == {5, 0}

\* deltaTime inputs: n stands for deltaTime = 2^-n seconds; the frames of the
\* interleaved specifications last 2 s and 1 s
DtSet == {-1, 0}

\* one Math.random() outcome per (call, particle): draw 1 gives every particle
\* the first sample, draw 2 alternates the two samples by index
Draws == {1, 2}

Sample(draw, i) == IF draw = 1 THEN 1 ELSE 1 + (i % 2)

----------------------------------------------------------------------------
(* IEEE-754 double arithmetic on [0,1], unit 2^-59, limbs of 20 bits *)

Pow2(n) == IF n = 0 THEN 1
           ELSE IF n = 1 THEN 2
           ELSE IF n = 2 THEN 4
           ELSE IF n = 3 THEN 8
           ELSE IF n = 4 THEN 16
           ELSE IF n = 5 THEN 32
           ELSE IF n = 6 THEN 64
           ELSE 128

Limb == 1024 * 1024

BigZero == <<0, 0, 0>>

\* normalise limbs that may be out of [0, Limb) by one carry or borrow
Carry(a, b, c) ==
    LET c1 == IF c < 0 THEN c + Limb ELSE IF c >= Limb THEN c - Limb ELSE c
        kb == IF c < 0 THEN -1 ELSE IF c >= Limb THEN 1 ELSE 0
        b0 == b + kb
        b1 == IF b0 < 0 THEN b0 + Limb ELSE IF b0 >= Limb THEN b0 - Limb ELSE b0
        ka == IF b0 < 0 THEN -1 ELSE IF b0 >= Limb THEN 1 ELSE 0
    IN  <<a + ka, b1, c1>>

BigLess(x, y) ==
    \/ x[1] < y[1]
    \/ x[1] = y[1] /\ x[2] < y[2]
    \/ x[1] = y[1] /\ x[2] = y[2] /\ x[3] < y[3]

BigLeq(x, y) == x = y \/ BigLess(x, y)

\* x - y, exact; when x < y the first limb of the difference is negative
BigSub(x, y) == Carry(x[1] - y[1], x[2] - y[2], x[3] - y[3])

\* x / 2^n for n in 0..5, exact when 2^n divides x
ShiftRight(x, n) ==
    LET q == Pow2(n)
        b0 == (x[1] % q) * Limb + x[2]
        c0 == (b0 % q) * Limb + x[3]
    IN  <<x[1] \div q, b0 \div q, c0 \div q>>

\* x * 2, exact
Double(x) ==
    LET c2 == 2 * x[3]
        b2 == 2 * x[2] + (c2 \div Limb)
    IN  <<2 * x[1] + (b2 \div Limb), b2 % Limb, c2 % Limb>>

\* the doubles 0.05 * 0.4, 0.05 * 0.3 and 0.033 * 0.3
TimesMs(x, ms) ==
    CASE ms = 50 /\ x = <<209715, 209715, 209728>> -> <<10485, 796917, 796920>>
      [] ms = 50 /\ x = <<157286, 419430, 419424>> -> <<7864, 335544, 335544>>
      [] ms = 33 /\ x = <<157286, 419430, 419424>> -> <<5190, 473117, 515061>>

\* x * deltaTime: for deltaTime = 2^-n, n in -1..5, exact, a change of
\* exponent
TimesDt(x, n) ==
    IF n >= 10 THEN TimesMs(x, n)
    ELSE IF n < 0 THEN Double(x) ELSE ShiftRight(x, n)

\* the number of bits of a limb
BitLen(a) ==
    LET RECURSIVE len(_)
        len(v) == IF v = 0 THEN 0 ELSE 1 + len(v \div 2)
    IN  len(a)

\* round to 53 significant bits, ties to even
Round53(x) ==
    LET k == BitLen(x[1]) + 40 - 53
    IN  IF k <= 0 THEN x
        ELSE LET q == Pow2(k)
                 low == x[3] % q
                 odd == (x[3] \div q) % 2 = 1
                 up == low * 2 > q \/ (low * 2 = q /\ odd)
             IN  Carry(x[1], x[2], x[3] - low + (IF up THEN q ELSE 0))

\* the double 1.0 and the doubles nearest to the decimal literals of the source
FlOne == <<524288, 0, 0>>
Fl08 == <<419430, 419430, 419456>>
Fl05 == <<262144, 0, 0>>
Fl04 == <<209715, 209715, 209728>>
Fl03 == <<157286, 419430, 419424>>
Fl01 == <<52428, 838860, 838864>>

\* a fade that clamps at the wrong end, Math.min(1, ...) of a passed zero
FadeClampedToOne(opacity, step) ==
    IF BigLess(opacity, step) THEN FlOne ELSE Round53(BigSub(opacity, step))

\* Math.max(0, opacity - step): the clamped fade of the later variants
FadeClamped(opacity, step) ==
    IF BigLess(opacity, step) THEN BigZero ELSE Round53(BigSub(opacity, step))

----------------------------------------------------------------------------
(* Fixed-point kinematics *)

Trunc(a, d) == IF a >= 0 THEN a \div d ELSE -((-a) \div d)

\* a * deltaTime
MulDt(a, n) ==
    IF n >= 10 THEN Trunc(a * n, 1000)
    ELSE IF n < 0 THEN a * Pow2(-n) ELSE Trunc(a, Pow2(n))

\* Math.min(delta, cap) for delta = 2^-n seconds and cap in ms
MinDelta(n, cap) == IF n >= 0 /\ cap * Pow2(n) >= 1000 THEN n ELSE cap

\* v * deltaTime, componentwise
ScaleDt(v, dt) == <<MulDt(v[1], dt), MulDt(v[2], dt), MulDt(v[3], dt)>>

VecAdd(p, q) == <<p[1] + q[1], p[2] + q[2], p[3] + q[3]>>

\* velocity.multiplyScalar(num / 1000)
Drag(v, num) == <<Trunc(v[1] * num, 1000), Trunc(v[2] * num, 1000), Trunc(v[3] * num, 1000)>>

----------------------------------------------------------------------------
(* The pool and the timer queue *)

Particle(pos, vel) ==
    [active |-> FALSE, opacity |-> BigZero, position |-> pos,
     velocity |-> vel, originalPosition |-> pos]

\* forEach over the pool with a body that touches one particle at a time
MapPool(ps, F(_, _)) == [i \in DOMAIN ps |-> F(ps[i], i)]

\* rotation += rotationSpeed, in a pool that carries the rotation
Rotated(p) ==
    IF "rotation" \in DOMAIN p THEN [p EXCEPT !.rotation = @ + 1] ELSE p

\* the pool ps carrying its rotations, none turned yet
Turning(ps) ==
    [i \in DOMAIN ps |->
        [f \in DOMAIN ps[i] \cup {"rotation"} |->
            IF f = "rotation" THEN 0 ELSE ps[i][f]]]

ActiveCount(ps) == Cardinality({i \in DOMAIN ps : ps[i].active})

\* setTimeout(cb, delay): the callback joins the queue behind every timer due
\* no later than it
\* the timer goes behind those that are due no later than it
Schedule(ts, timer) ==
    LET before == SelectSeq(ts, LAMBDA t : t.delay <= timer.delay)
        after == SelectSeq(ts, LAMBDA t : t.delay > timer.delay)
    IN  before \o <<timer>> \o after

SetTimeout(ts, cb, delay) == Schedule(ts, [cb |-> cb, delay |-> delay])

\* e milliseconds pass, none of the timers coming due before
ElapseBy(ts, e) == [k \in DOMAIN ts |-> [ts[k] EXCEPT !.delay = @ - e]]

\* how long ago the previous event may have been when a callback is registered:
\* just now, or as long ago as the next deadline allows
Elapsed(ts) == IF ts = <<>> THEN {0} ELSE {0, ts[1].delay}

\* the timers left when the head timer comes due and is taken off the queue
Fired(ts) == ElapseBy(Tail(ts), ts[1].delay)

----------------------------------------------------------------------------
(* src/js/sceneManager.js *)

maxParticles == 60

createOptimizedParticles ==
    [i \in 1..maxParticles |-> Particle(<<0, 1000, 0>>, <<0, 0, 0>>)]

\* (cos(angle) * speed, height, sin(angle) * speed), speed in [4,8), height in [3,9)
MegaVelocity(k) == IF k = 1 THEN <<400, 300, 0>> ELSE <<0, 899, 799>>

\* a burst that passes over the particles already in flight
triggerMegaConfettiSkipping(ps, draw) ==
    LET body(p, i) == IF p.active THEN p
                      ELSE [p EXCEPT !.active = TRUE,
                                     !.opacity = FlOne,
                                     !.position = <<0, 800, 0>>,
                                     !.velocity = MegaVelocity(Sample(draw, i))]
    IN  MapPool(ps, body)

triggerMegaConfetti(ps, draw) ==
    LET body(p, i) == [p EXCEPT !.active = TRUE,
                                !.opacity = FlOne,
                                !.position = <<0, 800, 0>>,
                                !.velocity = MegaVelocity(Sample(draw, i))]
    IN  MapPool(ps, body)

\* ((r - 0.5) * 20, 12 + r * 3, (r - 0.5) * 20)
GentlePosition(k) == IF k = 1 THEN <<0, 1200, 0>> ELSE <<-1000, 1499, 999>>

\* ((r - 0.5) * 1, -1.5 - r, (r - 0.5) * 1)
GentleVelocity(k) == IF k = 1 THEN <<0, -150, 0>> ELSE <<-50, -249, 49>>

gentleCap == 25

\* the forEach of triggerGentleConfetti from particle i on, activeCount
\* particles having been claimed so far
RECURSIVE gentleLoop(_, _, _, _)
gentleLoop(ps, i, activeCount, draw) ==
    IF i > Len(ps) THEN ps
    ELSE IF activeCount > gentleCap THEN gentleLoop(ps, i + 1, activeCount, draw)
    ELSE gentleLoop([ps EXCEPT ![i] = [@ EXCEPT !.active = TRUE,
                                                !.opacity = Fl08,
                                                !.position = GentlePosition(Sample(draw, i)),
                                                !.velocity = GentleVelocity(Sample(draw, i))]],
                    i + 1, activeCount + 1, draw)

triggerGentleConfetti(ps, draw) == gentleLoop(ps, 1, 0, draw)

stormWaves == 5

stormInterval == 300

\* for (wave = 0; wave < 5; wave++) setTimeout(triggerMegaConfetti, wave * 300)
RECURSIVE stormLoop(_, _, _, _)
stormLoop(ts, wave, waves, interval) ==
    IF wave >= waves THEN ts
    ELSE stormLoop(SetTimeout(ts, "triggerMegaConfetti", wave * interval),
                   wave + 1, waves, interval)

\* a storm whose loop starts at wave 1
triggerConfettiStormFromOne(ts) == stormLoop(ts, 1, stormWaves, stormInterval)

triggerConfettiStorm(ts) == stormLoop(ts, 0, stormWaves, stormInterval)

\* a retirement that leaves the particle where it stopped
ParkedInPlace(p) == [p EXCEPT !.active = FALSE, !.opacity = BigZero]

Parked(p) == [p EXCEPT !.active = FALSE,
                       !.opacity = BigZero,
                       !.position = p.originalPosition]

\* a reset that drops the particles in flight from the pool
resetParticlesDropping(ps) == SelectSeq(ps, LAMBDA p : ~p.active)

\* a reset that deactivates without clearing the opacity
resetParticlesOpaque(ps) ==
    LET body(p, i) == [p EXCEPT !.active = FALSE, !.position = p.originalPosition]
    IN  MapPool(ps, body)

\* the particle loop of quickReset
resetParticles(ps) ==
    LET body(p, i) == Parked(p)
    IN  MapPool(ps, body)

\* a reset that flips the text instead of hiding it
resetVisibleFlipping(v) ==
    [balloons |-> FALSE, cake |-> FALSE, text |-> ~v.text, stars |-> FALSE]

\* balloons, cake, text and stars are hidden
resetVisible(v) ==
    [balloons |-> FALSE, cake |-> FALSE, text |-> FALSE, stars |-> FALSE]

GRAVITY == 800

DRAG == 980

FLOOR_Y == -800

\* deltaTime * 0.4
fadeStep(dt) == TimesDt(Fl04, dt)

\* opacity <= 0
faded(opacity) == BigLeq(opacity, BigZero)

\* the steps taken in the other order: gravity and drag first, then the
\* position with the new velocity
moveParticleVelocityFirst(p, dt) ==
    LET vy == p.velocity[2] - MulDt(GRAVITY, dt)
        vel == Drag(<<p.velocity[1], vy, p.velocity[3]>>, DRAG)
        pos == VecAdd(p.position, ScaleDt(vel, dt))
        op == FadeClamped(p.opacity, fadeStep(dt))
    IN  [p EXCEPT !.position = pos, !.velocity = vel, !.opacity = op]

\* the position, gravity, drag and fade steps of updateParticles on one
\* active particle
moveParticle(p, dt) ==
    LET pos == VecAdd(p.position, ScaleDt(p.velocity, dt))
        vy == p.velocity[2] - MulDt(GRAVITY, dt)
        vel == Drag(<<p.velocity[1], vy, p.velocity[3]>>, DRAG)
        op == FadeClamped(p.opacity, fadeStep(dt))
    IN  Rotated([p EXCEPT !.position = pos, !.velocity = vel, !.opacity = op])

\* a loop body without the test of userData.active
updateParticleUnguarded(p, dt) ==
    LET moved == moveParticle(p, dt)
    IN  IF moved.position[2] < FLOOR_Y \/ faded(moved.opacity)
        THEN Parked(moved) ELSE moved

\* the body of updateParticles for one particle
updateParticle(p, dt) ==
    IF ~p.active THEN p
    ELSE LET moved == moveParticle(p, dt)
         IN  IF moved.position[2] < FLOOR_Y \/ faded(moved.opacity)
             THEN Parked(moved) ELSE moved

updateParticles(ps, dt) ==
    LET body(p, i) == updateParticle(p, dt)
    IN  MapPool(ps, body)

----------------------------------------------------------------------------
(* History *)

\* no burst is being followed
NoRun == [dt |-> {}, n |-> -1]

\* the calls behind the timers are not followed
NoCalls == [on |-> FALSE, own |-> <<>>]

\* the calls behind the timers are followed, none has been made
FirstCalls == [on |-> TRUE, own |-> <<>>]

\* setTimeout by a call that has just activated the particles at the indices
\* claimed: the entry goes where SetTimeout puts the timer in the queue ts
Calling(cs, ts, delay, claimed) ==
    IF ~cs.on THEN cs
    ELSE LET at == Cardinality({k \in DOMAIN ts : ts[k].delay <= delay})
             others == [k \in DOMAIN cs.own |-> cs.own[k] \ claimed]
         IN  [cs EXCEPT !.own = SubSeq(others, 1, at) \o <<claimed>>
                                \o SubSeq(others, at + 1, Len(others))]

\* the timer at the head of the queue has fired
Called(cs) == IF cs.on THEN [cs EXCEPT !.own = Tail(@)] ELSE cs

\* the balloons and candles are not followed
NoProps == [on |-> FALSE, popped |-> <<>>, lit |-> <<>>, gone |-> {},
            pops |-> <<>>, bursts |-> <<>>, blows |-> <<>>, ignored |-> FALSE]

\* the hearts are not followed
NoHearts == [on |-> FALSE, interval |-> 0, running |-> {}, container |-> {},
             made |-> 0, starts |-> 0, stopped |-> FALSE, late |-> FALSE]

\* no document is followed
NoDocument == [readyState |-> "none", evaluated |-> FALSE, fired |-> FALSE,
               listeners |-> 0, apps |-> 0, loops |-> 0]

\* the camera is not followed
NoCamera == [on |-> FALSE, ref |-> TRUE, position |-> <<0, 0, 0>>,
             home |-> <<0, 0, 0>>, thrown |-> FALSE, shakes |-> 0]

\* this.camera = null
Released(cam) == IF cam.on THEN [cam EXCEPT !.ref = FALSE] ELSE cam

\* no BirthdayApp is followed
NoApp == [phase |-> "none", isLoaded |-> FALSE, error |-> FALSE,
          progress |-> 0, steps |-> 0, shown |-> 0]

\* no gsap timeline has been created
NoTimeline == [next |-> 0, wait |-> 0]

\* a burst has just been made and no update has followed it yet
NewRun == [dt |-> {}, n |-> 0]

\* an operation other than update or quickReset has run
Did(op) ==
    /\ lastOp' = op
    /\ lastDt' = {}
    /\ resets' = 0
    /\ run' = run

----------------------------------------------------------------------------
(* Operations of src/js/sceneManager.js *)

TriggerMegaConfetti ==
    /\ variant = "sm"
    /\ \E draw \in Draws : particles' = triggerMegaConfetti(particles, draw)
    /\ Did("triggerMegaConfetti")
    /\ UNCHANGED <<host, variant, isAnimating, timers, visible>>

TriggerGentleConfetti ==
    /\ variant = "sm"
    /\ \E draw \in Draws : particles' = triggerGentleConfetti(particles, draw)
    /\ Did("triggerGentleConfetti")
    /\ UNCHANGED <<host, variant, isAnimating, timers, visible>>

TriggerConfettiStorm ==
    /\ variant = "sm"
    /\ Len(timers) + stormWaves <= MaxTimers
    /\ \E e \in Elapsed(timers) : timers' = triggerConfettiStorm(ElapseBy(timers, e))
    /\ Did("triggerConfettiStorm")
    /\ UNCHANGED <<host, variant, isAnimating, particles, visible>>

\* a storm wave comes due and runs triggerMegaConfetti
StormWave ==
    /\ variant = "sm"
    /\ timers # <<>>
    /\ timers[1].cb = "triggerMegaConfetti"
    /\ \E draw \in Draws : particles' = triggerMegaConfetti(particles, draw)
    /\ timers' = Fired(timers)
    /\ Did("stormWave")
    /\ UNCHANGED <<host, variant, isAnimating, visible>>

\* a quickReset that also cancels the timers still pending
QuickResetCancelling ==
    /\ variant = "sm"
    /\ particles' = resetParticles(particles)
    /\ visible' = resetVisible(visible)
    /\ timers' = <<>>
    /\ lastOp' = "quickReset"
    /\ lastDt' = {}
    /\ resets' = IF resets < 2 THEN resets + 1 ELSE 2
    /\ UNCHANGED <<host, variant, isAnimating, run>>

QuickReset ==
    /\ variant = "sm"
    /\ particles' = resetParticles(particles)
    /\ visible' = resetVisible(visible)
    /\ lastOp' = "quickReset"
    /\ lastDt' = {}
    /\ resets' = IF resets < 2 THEN resets + 1 ELSE 2
    /\ UNCHANGED <<host, variant, isAnimating, timers, run>>

Update ==
    /\ variant = "sm"
    /\ \E dt \in DtSet :
        /\ particles' = updateParticles(particles, dt)
        /\ lastDt' = {dt}
    /\ lastOp' = "update"
    /\ resets' = 0
    /\ UNCHANGED <<host, variant, isAnimating, timers, visible, run>>

\* dispose(): the render loop is told to stop, the scene's geometries and
\* materials are released and scene, camera, renderer and controls set to
\* null; objects.particles is not written
Dispose ==
    /\ variant = "sm"
    /\ isAnimating' = FALSE
    /\ camera' = Released(camera)
    /\ Did("dispose")
    /\ UNCHANGED <<page, calls, variant, particles, timers, visible>>

dtCap == 50

\* animate() of startRenderLoop, on a frame that is not skipped
Animate ==
    /\ variant = "sm"
    /\ isAnimating
    /\ \E delta \in FrameIntervals :
        LET deltaTime == MinDelta(delta, dtCap)
        IN  /\ particles' = updateParticles(particles, deltaTime)
            /\ lastDt' = {deltaTime}
    /\ lastOp' = "animate"
    /\ resets' = 0
    /\ UNCHANGED <<host, variant, isAnimating, timers, visible, run>>

----------------------------------------------------------------------------
(* The enhanced SceneManager of src/js/main.js *)

maxParticlesEnh == 80

createEnhancedParticles ==
    [i \in 1..maxParticlesEnh |-> Particle(<<0, 1500, 0>>, <<0, 0, 0>>)]

clearConfetti(ps) ==
    LET body(p, i) == Parked(p)
    IN  MapPool(ps, body)

\* the part of clearActiveAnimations that reaches the pool
clearActiveAnimations(ps) == clearConfetti(ps)

\* ((r - 0.5) * 30, 20, (r - 0.5) * 30)
MegaStartEnh(k) == IF k = 1 THEN <<0, 2000, 0>> ELSE <<-1500, 2000, 1499>>

\* (cos(angle) * speed, height, sin(angle) * speed), speed in [4,8), height in [4,12)
MegaVelocityEnh(k) == IF k = 1 THEN <<400, 400, 0>> ELSE <<0, 1199, 799>>

triggerMegaConfettiEnh(ps, draw) ==
    LET body(p, i) == [p EXCEPT !.active = TRUE,
                                !.opacity = FlOne,
                                !.position = MegaStartEnh(Sample(draw, i)),
                                !.velocity = MegaVelocityEnh(Sample(draw, i))]
    IN  MapPool(clearActiveAnimations(ps), body)

megaClearDelay == 8000

\* ((r - 0.5) * 25, 15 + r * 5, (r - 0.5) * 25)
GentlePositionEnh(k) == IF k = 1 THEN <<0, 1500, 0>> ELSE <<-1250, 1999, 1249>>

gentleCapEnh == 30

RECURSIVE gentleLoopEnh(_, _, _, _)
gentleLoopEnh(ps, i, activeCount, draw) ==
    IF i > Len(ps) THEN ps
    ELSE IF activeCount > gentleCapEnh THEN gentleLoopEnh(ps, i + 1, activeCount, draw)
    ELSE gentleLoopEnh([ps EXCEPT ![i] = [@ EXCEPT !.active = TRUE,
                                                   !.opacity = Fl08,
                                                   !.position = GentlePositionEnh(Sample(draw, i)),
                                                   !.velocity = GentleVelocity(Sample(draw, i))]],
                       i + 1, activeCount + 1, draw)

triggerGentleConfettiEnh(ps, draw) == gentleLoopEnh(ps, 1, 0, draw)

\* the particles the loop activates: it returns once activeCount exceeds the cap
gentleClaimsEnh(ps) == {i \in DOMAIN ps : i <= gentleCapEnh + 1}

gentleClearDelay == 6000

\* quickReset: clearActiveAnimations, then the particle loop
resetParticlesEnh(ps) ==
    LET body(p, i) == Parked(p)
    IN  MapPool(clearActiveAnimations(ps), body)

FLOOR_Y_ENH == -1000

\* deltaTime * 0.3
fadeStepEnh(dt) == TimesDt(Fl03, dt)

\* a retirement test at zero, as in the other variants
fadedEnhAtZero(opacity) == BigLeq(opacity, BigZero)

\* opacity <= 0.1
fadedEnh(opacity) == BigLeq(opacity, Fl01)

moveParticleEnh(p, dt) ==
    LET pos == VecAdd(p.position, ScaleDt(p.velocity, dt))
        vy == p.velocity[2] - MulDt(GRAVITY, dt)
        vel == Drag(<<p.velocity[1], vy, p.velocity[3]>>, DRAG)
        op == FadeClamped(p.opacity, fadeStepEnh(dt))
    IN  Rotated([p EXCEPT !.position = pos, !.velocity = vel, !.opacity = op])

updateParticleEnh(p, dt) ==
    IF ~p.active THEN p
    ELSE LET moved == moveParticleEnh(p, dt)
         IN  IF moved.position[2] < FLOOR_Y_ENH \/ fadedEnh(moved.opacity)
             THEN Parked(moved) ELSE moved

updateParticlesEnh(ps, dt) ==
    LET body(p, i) == updateParticleEnh(p, dt)
    IN  MapPool(ps, body)

(* Operations of the enhanced SceneManager *)

TriggerMegaConfettiEnh ==
    /\ variant = "enh"
    /\ Len(timers) < MaxAutoClears
    /\ \E draw \in Draws : particles' = triggerMegaConfettiEnh(particles, draw)
    /\ \E e \in Elapsed(timers) :
        /\ timers' = SetTimeout(ElapseBy(timers, e), "clearConfetti", megaClearDelay)
        /\ calls' = Calling(calls, ElapseBy(timers, e), megaClearDelay, DOMAIN particles)
    /\ Did("triggerMegaConfetti")
    /\ UNCHANGED <<page, camera, variant, isAnimating, visible>>

TriggerGentleConfettiEnh ==
    /\ variant = "enh"
    /\ Len(timers) < MaxAutoClears
    /\ \E draw \in Draws : particles' = triggerGentleConfettiEnh(particles, draw)
    /\ \E e \in Elapsed(timers) :
        /\ timers' = SetTimeout(ElapseBy(timers, e), "clearConfetti", gentleClearDelay)
        /\ calls' = Calling(calls, ElapseBy(timers, e), gentleClearDelay,
                            gentleClaimsEnh(particles))
    /\ Did("triggerGentleConfetti")
    /\ UNCHANGED <<page, camera, variant, isAnimating, visible>>

\* an auto-clear timer comes due and runs clearConfetti
AutoClear ==
    /\ variant = "enh"
    /\ timers # <<>>
    /\ timers[1].cb = "clearConfetti"
    /\ particles' = clearConfetti(particles)
    /\ timers' = Fired(timers)
    /\ calls' = Called(calls)
    /\ Did("clearConfetti")
    /\ UNCHANGED <<page, camera, variant, isAnimating, visible>>

stormWavesEnh == 6

stormIntervalEnh == 500

\* for (wave = 0; wave < 6; wave++) setTimeout(triggerMegaConfetti, wave * 500)
triggerConfettiStormEnh(ts) == stormLoop(ts, 0, stormWavesEnh, stormIntervalEnh)

TriggerConfettiStormEnh ==
    /\ variant = "enh"
    /\ Len(timers) + stormWavesEnh <= MaxTimersEnh
    /\ \E e \in Elapsed(timers) :
        timers' = triggerConfettiStormEnh(ElapseBy(timers, e))
    /\ Did("triggerConfettiStorm")
    /\ UNCHANGED <<host, variant, isAnimating, particles, visible>>

\* a storm wave comes due and runs triggerMegaConfetti, which registers its
\* auto-clear
StormWaveEnh ==
    /\ variant = "enh"
    /\ timers # <<>>
    /\ timers[1].cb = "triggerMegaConfetti"
    /\ \E draw \in Draws : particles' = triggerMegaConfettiEnh(particles, draw)
    /\ timers' = SetTimeout(Fired(timers), "clearConfetti", megaClearDelay)
    /\ calls' = Calling(Called(calls), Fired(timers), megaClearDelay, DOMAIN particles)
    /\ Did("stormWave")
    /\ UNCHANGED <<page, camera, variant, isAnimating, visible>>

QuickResetEnh ==
    /\ variant = "enh"
    /\ particles' = resetParticlesEnh(particles)
    /\ visible' = resetVisible(visible)
    /\ lastOp' = "quickReset"
    /\ lastDt' = {}
    /\ resets' = IF resets < 2 THEN resets + 1 ELSE 2
    /\ UNCHANGED <<host, variant, isAnimating, timers, run>>

UpdateEnh ==
    /\ variant = "enh"
    /\ \E dt \in DtSet :
        /\ particles' = updateParticlesEnh(particles, dt)
        /\ lastDt' = {dt}
    /\ lastOp' = "update"
    /\ resets' = 0
    /\ UNCHANGED <<host, variant, isAnimating, timers, visible, run>>

AnimateEnh ==
    /\ variant = "enh"
    /\ isAnimating
    /\ \E delta \in FrameIntervals :
        LET deltaTime == MinDelta(delta, dtCap)
        IN  /\ particles' = updateParticlesEnh(particles, deltaTime)
            /\ lastDt' = {deltaTime}
    /\ lastOp' = "animate"
    /\ resets' = 0
    /\ UNCHANGED <<host, variant, isAnimating, timers, visible, run>>

----------------------------------------------------------------------------
(* src/js/scene/SceneManager.js *)

particleCountScene == 200

\* ((r - 0.5) * 30, r * 15 + 15, (r - 0.5) * 30)
CreatePositionScene(k) == IF k = 1 THEN <<0, 1500, 0>> ELSE <<-1000, 2000, 1000>>

\* ((r - 0.5) * 2, -r * 2 - 1, (r - 0.5) * 2)
CreateVelocityScene(k) == IF k = 1 THEN <<0, -100, 0>> ELSE <<-100, -299, 99>>

createParticlesScene(draw) ==
    [i \in 1..particleCountScene |->
        Particle(CreatePositionScene(Sample(draw, i)), CreateVelocityScene(Sample(draw, i)))]

\* where a balloon is popped or a firework goes off: within reach of the
\* particles created at the first sample, and out of reach of every particle
BurstPositionsScene == {<<0, 1600, 0>>, <<749, 1999, -749>>}

\* position.distanceTo(q) < d, in hundredths
Within(p, q, d) ==
    (p[1] - q[1]) * (p[1] - q[1]) + (p[2] - q[2]) * (p[2] - q[2])
        + (p[3] - q[3]) * (p[3] - q[3]) < d * d

burstDistanceScene == 500

burstCapScene == 15

\* ((r - 0.5) * 2, r * 2, (r - 0.5) * 2)
BurstJitterScene(k) == IF k = 1 THEN <<0, 0, 0>> ELSE <<-100, 199, 99>>

\* ((r - 0.5) * 4, r * 4 + 2, (r - 0.5) * 4)
BurstVelocityScene(k) == IF k = 1 THEN <<0, 200, 0>> ELSE <<-200, 599, 199>>

\* a loop body that takes particles in flight as well
burstBodySceneReusing(st, i, position, draw) ==
    IF st.activatedCount > burstCapScene THEN st
    ELSE IF Within(st.ps[i].position, position, burstDistanceScene)
         THEN [ps |-> [st.ps EXCEPT ![i] =
                          [@ EXCEPT !.active = TRUE,
                                    !.opacity = FlOne,
                                    !.position = VecAdd(position, BurstJitterScene(Sample(draw, i))),
                                    !.velocity = BurstVelocityScene(Sample(draw, i))]],
               activatedCount |-> st.activatedCount + 1]
    ELSE st

\* the body of the forEach of createParticleBurst for particle i; st holds the
\* pool and activatedCount
burstBodyScene(st, i, position, draw) ==
    IF st.ps[i].active \/ st.activatedCount > burstCapScene THEN st
    ELSE IF Within(st.ps[i].position, position, burstDistanceScene)
         THEN [ps |-> [st.ps EXCEPT ![i] =
                          [@ EXCEPT !.active = TRUE,
                                    !.opacity = FlOne,
                                    !.position = VecAdd(position, BurstJitterScene(Sample(draw, i))),
                                    !.velocity = BurstVelocityScene(Sample(draw, i))]],
               activatedCount |-> st.activatedCount + 1]
    ELSE st

\* the forEach over particles lo..hi in order, first half then second half
\* (the test of done only has the first half evaluated before the second)
RECURSIVE burstLoopScene(_, _, _, _, _)
burstLoopScene(st, lo, hi, position, draw) ==
    IF lo > hi THEN st
    ELSE IF lo = hi THEN burstBodyScene(st, lo, position, draw)
    ELSE LET mid == (lo + hi) \div 2
             done == burstLoopScene(st, lo, mid, position, draw)
         IN  IF done.activatedCount >= 0
             THEN burstLoopScene(done, mid + 1, hi, position, draw)
             ELSE done

createParticleBurstScene(ps, position, draw) ==
    burstLoopScene([ps |-> ps, activatedCount |-> 0], 1, Len(ps), position, draw).ps

\* 9.8 * 0.1
GRAVITY_SCENE == 98

DRAG_SCENE == 995

FLOOR_Y_SCENE == -1000

moveParticleScene(p, dt) ==
    LET pos == VecAdd(p.position, ScaleDt(p.velocity, dt))
        vy == p.velocity[2] - MulDt(GRAVITY_SCENE, dt)
        vel == Drag(<<p.velocity[1], vy, p.velocity[3]>>, DRAG_SCENE)
        op == FadeClamped(p.opacity, TimesDt(Fl03, dt))
    IN  Rotated([p EXCEPT !.position = pos, !.velocity = vel, !.opacity = op])

updateParticleScene(p, dt) ==
    IF ~p.active THEN p
    ELSE LET moved == moveParticleScene(p, dt)
         IN  IF moved.position[2] < FLOOR_Y_SCENE \/ BigLeq(moved.opacity, BigZero)
             THEN Parked(moved) ELSE moved

updateParticlesScene(ps, dt) ==
    LET body(p, i) == updateParticleScene(p, dt)
    IN  MapPool(ps, body)

(* Operations of src/js/scene/SceneManager.js *)

\* particles in flight beyond which the model makes no further burst
MaxInFlight == 16

\* createParticleBurst, as popBalloon and the timers of triggerFireworks call it
CreateParticleBurstScene ==
    /\ variant = "scene"
    /\ ActiveCount(particles) <= MaxInFlight
    /\ \E position \in BurstPositionsScene, draw \in Draws :
        particles' = createParticleBurstScene(particles, position, draw)
    /\ Did("createParticleBurst")
    /\ UNCHANGED <<host, variant, isAnimating, timers, visible>>

UpdateScene ==
    /\ variant = "scene"
    /\ \E dt \in DtSet :
        /\ particles' = updateParticlesScene(particles, dt)
        /\ lastDt' = {dt}
    /\ lastOp' = "update"
    /\ resets' = 0
    /\ UNCHANGED <<host, variant, isAnimating, timers, visible, run>>

dtCapScene == 33

AnimateScene ==
    /\ variant = "scene"
    /\ isAnimating
    /\ \E delta \in FrameIntervals :
        LET deltaTime == MinDelta(delta, dtCapScene)
        IN  /\ particles' = updateParticlesScene(particles, deltaTime)
            /\ lastDt' = {deltaTime}
    /\ lastOp' = "animate"
    /\ resets' = 0
    /\ UNCHANGED <<host, variant, isAnimating, timers, visible, run>>

----------------------------------------------------------------------------
(* BirthdayApp of src/unnamed/part_001.  The code keeps no originalPosition; *)
(* the field is, for this variant, the history of where the particle was     *)
(* created.                                                                  *)

particleCountApp == 100

\* ((r - 0.5) * 20, r * 10 + 10, (r - 0.5) * 20)
CreatePositionApp(k) == IF k = 1 THEN <<0, 1000, 0>> ELSE <<-400, 1200, 400>>

createParticlesApp(draw) ==
    [i \in 1..particleCountApp |->
        Particle(CreatePositionApp(Sample(draw, i)), CreateVelocityScene(Sample(draw, i)))]

\* where a balloon is popped or a firework goes off
BurstPositionsApp == {<<0, 1100, 0>>, <<-499, 1299, 499>>}

burstDistanceApp == 200

\* ((r - 0.5) * 3, r * 3 + 1, (r - 0.5) * 3)
BurstVelocityApp(k) == IF k = 1 THEN <<0, 100, 0>> ELSE <<-150, 399, 149>>

createParticleBurstApp(ps, position, draw) ==
    LET body(p, i) ==
            IF p.active THEN p
            ELSE IF Within(p.position, position, burstDistanceApp)
                 THEN [p EXCEPT !.active = TRUE,
                                !.opacity = FlOne,
                                !.position = position,
                                !.velocity = BurstVelocityApp(Sample(draw, i))]
            ELSE p
    IN  MapPool(ps, body)

FLOOR_Y_APP == -500

\* a retirement that leaves the opacity the fade arrived at
RetiredAppFaded(p) == [p EXCEPT !.active = FALSE]

\* the retirement of updateParticles: active = false, opacity = 0
RetiredApp(p) == [p EXCEPT !.active = FALSE, !.opacity = BigZero]

\* opacity -= step, unclamped; a negative difference (first limb below 0) is
\* kept as it is, only its sign being read before the retirement overwrites it
fadeApp(opacity, step) ==
    LET raw == BigSub(opacity, step)
    IN  IF raw[1] < 0 THEN raw ELSE Round53(raw)

\* the body of updateParticles for one particle
updateParticleApp(p, dt) ==
    IF ~p.active THEN p
    ELSE LET pos == VecAdd(p.position, ScaleDt(p.velocity, dt))
             vy == p.velocity[2] - MulDt(GRAVITY_SCENE, dt)
             op == fadeApp(p.opacity, TimesDt(Fl05, dt))
             flown == [p EXCEPT !.position = pos,
                                !.velocity = <<p.velocity[1], vy, p.velocity[3]>>,
                                !.opacity = op]
             moved == Rotated(flown)
         IN  IF pos[2] < FLOOR_Y_APP \/ BigLeq(op, BigZero)
             THEN RetiredApp(moved)
             ELSE moved

updateParticlesApp(ps, dt) ==
    LET body(p, i) == updateParticleApp(p, dt)
    IN  MapPool(ps, body)

(* Operations of BirthdayApp *)

CreateParticleBurstApp ==
    /\ variant = "app"
    /\ \E position \in BurstPositionsApp, draw \in Draws :
        particles' = createParticleBurstApp(particles, position, draw)
    /\ Did("createParticleBurst")
    /\ UNCHANGED <<host, variant, isAnimating, timers, visible>>

UpdateApp ==
    /\ variant = "app"
    /\ \E dt \in DtSet :
        /\ particles' = updateParticlesApp(particles, dt)
        /\ lastDt' = {dt}
    /\ lastOp' = "update"
    /\ resets' = 0
    /\ UNCHANGED <<host, variant, isAnimating, timers, visible, run>>

\* animate() of startRenderLoop: deltaTime = this.clock.getDelta()
AnimateApp ==
    /\ variant = "app"
    /\ \E deltaTime \in FrameIntervals :
        /\ particles' = updateParticlesApp(particles, deltaTime)
        /\ lastDt' = {deltaTime}
    /\ lastOp' = "animate"
    /\ resets' = 0
    /\ UNCHANGED <<host, variant, isAnimating, timers, visible, run>>

----------------------------------------------------------------------------
(* The scripted timeline of BirthdayApp *)

TimelineVariants == {"sm", "enh"}

\* explodeWelcome shows the text and the stars
ExplodeWelcome ==
    /\ variant \in TimelineVariants
    /\ visible' = [visible EXCEPT !.text = TRUE, !.stars = TRUE]
    /\ Did("explodeWelcome")
    /\ UNCHANGED <<host, variant, isAnimating, particles, timers>>

\* balloonSurpriseAttack, which the timeline calls after explodeWelcome, shows
\* the balloons
BalloonSurpriseAttack ==
    /\ variant \in TimelineVariants
    /\ visible.text
    /\ visible' = [visible EXCEPT !.balloons = TRUE]
    /\ Did("balloonSurpriseAttack")
    /\ UNCHANGED <<host, variant, isAnimating, particles, timers>>

\* cakeAndCandleMagic, which the timeline calls after balloonSurpriseAttack,
\* shows the cake
CakeAndCandleMagic ==
    /\ variant \in TimelineVariants
    /\ visible.balloons
    /\ visible' = [visible EXCEPT !.cake = TRUE]
    /\ Did("cakeAndCandleMagic")
    /\ UNCHANGED <<host, variant, isAnimating, particles, timers>>

----------------------------------------------------------------------------
(* A burst followed by nothing but update(deltaTime) of one deltaTime *)

\* the deltaTime of the runs followed: 1/32 s and 1/64 s, frames that the
\* render loop passes on unclamped
FadeDts == {5, 6}

\* updates a run is followed for beyond the bound on its length
RunSlack == 1

\* ceil(1 / (0.4 * deltaTime)) for deltaTime = 2^-n: ceil(10 * 2^n / 4)
FadeBound(n) == ((IF n < 0 THEN 5 ELSE 10 * Pow2(n)) + 3) \div 4

FadeBurst ==
    /\ variant = "sm"
    /\ \E draw \in Draws : particles' = triggerMegaConfetti(particles, draw)
    /\ run' = NewRun
    /\ lastOp' = "triggerMegaConfetti"
    /\ lastDt' = {}
    /\ resets' = 0
    /\ UNCHANGED <<host, variant, isAnimating, timers, visible>>

FadeUpdate ==
    /\ variant = "sm"
    /\ run.n >= 0
    /\ \E dt \in FadeDts :
        /\ run.dt \subseteq {dt}
        /\ run.n < FadeBound(dt) + RunSlack
        /\ particles' = updateParticles(particles, dt)
        /\ run' = [dt |-> {dt}, n |-> run.n + 1]
        /\ lastDt' = {dt}
    /\ lastOp' = "update"
    /\ resets' = 0
    /\ UNCHANGED <<host, variant, isAnimating, timers, visible>>

----------------------------------------------------------------------------
(* The specifications *)

Hidden == [balloons |-> FALSE, cake |-> FALSE, text |-> FALSE, stars |-> FALSE]

Pool(v) == IF v = "sm" THEN createOptimizedParticles ELSE createEnhancedParticles

\* the state once init() has built the scene of variant v with pool ps
InitEngine(v, ps) ==
    /\ variant = v
    /\ isAnimating = TRUE
    /\ particles = ps
    /\ timers = <<>>
    /\ visible = Hidden
    /\ lastOp = "init"
    /\ lastDt = {}
    /\ run = NoRun
    /\ resets = 0

InitWith(v, ps) ==
    /\ InitEngine(v, ps)
    /\ timeline = NoTimeline
    /\ app = NoApp
    /\ document = NoDocument
    /\ hearts = NoHearts
    /\ props = NoProps
    /\ calls = NoCalls
    /\ camera = NoCamera

InitOf(v) == InitWith(v, Pool(v))

InitSM == InitOf("sm")

NextSM ==
    \/ TriggerMegaConfetti
    \/ TriggerGentleConfetti
    \/ TriggerConfettiStorm
    \/ StormWave
    \/ QuickReset
    \/ Update

\* src/js/sceneManager.js under every interleaving of its pool operations
SpecSM == InitSM /\ [][NextSM]_vars

InitEnh == InitOf("enh")

NextEnh ==
    \/ TriggerMegaConfettiEnh
    \/ TriggerGentleConfettiEnh
    \/ AutoClear
    \/ QuickResetEnh
    \/ UpdateEnh

\* the enhanced SceneManager under every interleaving of its pool operations
SpecEnh == InitEnh /\ [][NextEnh]_vars

Init == InitSM \/ InitEnh

Next == NextSM \/ NextEnh

\* either SceneManager with a reset
Spec == Init /\ [][Next]_vars

\* src/js/sceneManager.js with its event loop: a timer that is pending is
\* run, sooner or later
SpecSMFair == SpecSM /\ WF_vars(StormWave)

NextStorm ==
    \/ TriggerConfettiStorm
    \/ StormWave
    \/ Update
    \/ TriggerConfettiStormEnh
    \/ StormWaveEnh
    \/ AutoClear
    \/ UpdateEnh

\* either SceneManager raising storms between frames, with its event loop: a
\* timer that is pending is run, sooner or later
SpecStorm ==
    /\ Init
    /\ [][NextStorm]_vars
    /\ WF_vars(StormWave)
    /\ WF_vars(StormWaveEnh)
    /\ WF_vars(AutoClear)

InitScene == \E draw \in Draws : InitWith("scene", createParticlesScene(draw))

NextScene == CreateParticleBurstScene \/ UpdateScene

\* src/js/scene/SceneManager.js, bursts and frames
SpecScene == InitScene /\ [][NextScene]_vars

InitApp == \E draw \in Draws : InitWith("app", createParticlesApp(draw))

NextApp == CreateParticleBurstApp \/ UpdateApp

\* BirthdayApp of src/unnamed/part_001, bursts and frames
SpecApp == InitApp /\ [][NextApp]_vars

InitPools == InitSM \/ InitEnh \/ InitApp

NextPools == NextSM \/ NextEnh \/ NextApp

\* the pools of sceneManager.js, of the enhanced SceneManager and of
\* part_001, each under every interleaving of its operations
SpecPools == InitPools /\ [][NextPools]_vars

\* heights and velocities at which a particle is found in flight
SettleHeights == {100, 400, -300}

SettleVelocities == {<<0, -500, 0>>, <<0, -300, 0>>, <<100, 200, -100>>}

\* particle p as a trigger leaves it, at height y with velocity v
InFlight(p, y, v) ==
    [p EXCEPT !.active = TRUE, !.opacity = FlOne,
              !.position = <<0, y, 0>>, !.velocity = v]

\* the pool of sceneManager.js with its first two particles in flight
InitSettle ==
    \E y1 \in SettleHeights, v1 \in SettleVelocities,
       y2 \in SettleHeights, v2 \in SettleVelocities :
        InitWith("sm", [createOptimizedParticles EXCEPT
                           ![1] = InFlight(@, y1, v1),
                           ![2] = InFlight(@, y2, v2)])

\* updateParticles of src/js/sceneManager.js applied, frame after frame, to
\* particles found in flight
SpecSettle == InitSettle /\ [][Update]_vars

TurnsLeft == \A i \in DOMAIN particles : particles[i].rotation < MaxTurns

InitFrames ==
    \/ InitWith("sm", Turning(createOptimizedParticles))
    \/ \E draw \in Draws : InitWith("scene", Turning(createParticlesScene(draw)))

NextFrames ==
    \/ TriggerMegaConfetti
    \/ TriggerGentleConfetti
    \/ QuickReset
    \/ TurnsLeft /\ Update
    \/ CreateParticleBurstScene
    \/ TurnsLeft /\ UpdateScene

\* sceneManager.js and scene/SceneManager.js with the rotation of every
\* particle followed through its first frames
SpecFrames == InitFrames /\ [][NextFrames]_vars

InitRender ==
    \/ InitWith("sm", Turning(createOptimizedParticles))
    \/ InitWith("enh", Turning(createEnhancedParticles))
    \/ \E draw \in Draws : InitWith("scene", Turning(createParticlesScene(draw)))
    \/ \E draw \in Draws : InitWith("app", Turning(createParticlesApp(draw)))

NextRender ==
    \/ TriggerMegaConfetti
    \/ TurnsLeft /\ Animate
    \/ TriggerMegaConfettiEnh
    \/ AutoClear
    \/ TurnsLeft /\ AnimateEnh
    \/ CreateParticleBurstScene
    \/ TurnsLeft /\ AnimateScene
    \/ CreateParticleBurstApp
    \/ TurnsLeft /\ AnimateApp

\* the render loop of each variant, followed through the first frames of
\* its particles
SpecRender == InitRender /\ [][NextRender]_vars

\* src/js/sceneManager.js with dispose() called at any time, and its methods
\* called and its timers firing after as before
SpecDispose == InitSM /\ [][NextSM \/ Dispose]_vars

NextFade == FadeBurst \/ FadeUpdate

\* src/js/sceneManager.js, bursts followed by updates of one deltaTime
SpecFade == InitSM /\ [][NextFade]_vars

AllShown == visible.text /\ visible.stars /\ visible.balloons /\ visible.cake

\* the timeline shows the scene, then calls for confetti, then resets, and
\* starts over once the calls it deferred have run; timers and frames come
\* when they come, and quickReset may be called at any time
NextTimeline ==
    \/ timers = <<>> /\ ExplodeWelcome
    \/ timers = <<>> /\ BalloonSurpriseAttack
    \/ timers = <<>> /\ CakeAndCandleMagic
    \/ AllShown /\ TriggerMegaConfetti
    \/ AllShown /\ TriggerGentleConfetti
    \/ AllShown /\ TriggerConfettiStorm
    \/ AllShown /\ TriggerMegaConfettiEnh
    \/ AllShown /\ TriggerGentleConfettiEnh
    \/ StormWave
    \/ AutoClear
    \/ QuickReset
    \/ QuickResetEnh
    \/ Update
    \/ UpdateEnh

\* either SceneManager driven by the timeline of BirthdayApp
SpecTimeline == Init /\ [][NextTimeline]_vars


----------------------------------------------------------------------------
(* The repeating timeline of the first BirthdayApp (createActionPackedTimeline).
   gsap runs the timeline's calls on its own ticker, window.setTimeout runs the
   callbacks the calls defer; both are driven by one clock, and of two events
   that are due at the same instant either may run first.  The timers that only
   tween meshes or shake the camera (candle flames, fireworks, cameraShake)
   write nothing that is followed here and are left out. *)

\* the positions, in ms, of the eight calls of the timeline
timelineCalls == <<0, 4000, 6000, 10000, 14000, 18000, 24000, 30000>>

callNames == <<"explodeWelcome", "balloonSurpriseAttack", "cakeAndCandleMagic",
               "confettiExplosion", "showBirthdayMessage", "fireworksFinale",
               "megaCelebration", "resetForNextRound">>

repeatDelay == 1000

stormDelay == 1000

resetDelay == 1000

\* gsap.timeline({ repeat: -1, repeatDelay: 1 }): the first call is due at once
createActionPackedTimeline == [next |-> 1, wait |-> timelineCalls[1]]

\* the ms from call k to the call after it; the timeline starts over after call 8
WaitAfter(k) ==
    IF k = Len(timelineCalls) THEN repeatDelay + timelineCalls[1]
    ELSE timelineCalls[k + 1] - timelineCalls[k]

\* the timeline reaches its next call: no timer is due before it
TimelineCall ==
    /\ timeline.next > 0
    /\ timers # <<>> => timeline.wait <= timers[1].delay
    /\ LET k == timeline.next
           now == ElapseBy(timers, timeline.wait)
       IN  /\ timeline' = [next |-> (k % Len(timelineCalls)) + 1, wait |-> WaitAfter(k)]
           /\ visible' = CASE k = 1 -> [visible EXCEPT !.text = TRUE, !.stars = TRUE]
                           [] k = 2 -> [visible EXCEPT !.balloons = TRUE]
                           [] k = 3 -> [visible EXCEPT !.cake = TRUE]
                           [] OTHER -> visible
           /\ \E draw \in Draws :
                particles' = CASE k = 4 -> triggerMegaConfetti(particles, draw)
                               [] k = 5 -> triggerGentleConfetti(particles, draw)
                               [] OTHER -> particles
           /\ timers' = CASE k = 7 -> SetTimeout(now, "triggerConfettiStorm", stormDelay)
                          [] k = 8 -> SetTimeout(now, "quickReset", resetDelay)
                          [] OTHER -> now
           /\ Did(callNames[k])
    /\ UNCHANGED <<variant, isAnimating, calls, app, camera, document, hearts, props>>

\* the timer at the head of the queue fires: no call of the timeline is due before it
TimerFires ==
    /\ timeline.next > 0
    /\ timers # <<>>
    /\ timers[1].delay <= timeline.wait
    /\ LET cb == timers[1].cb
       IN  /\ timeline' = [timeline EXCEPT !.wait = @ - timers[1].delay]
           /\ \E draw \in Draws :
                particles' = CASE cb = "triggerMegaConfetti" ->
                                      triggerMegaConfetti(particles, draw)
                               [] cb = "quickReset" -> resetParticles(particles)
                               [] OTHER -> particles
           /\ timers' = IF cb = "triggerConfettiStorm"
                        THEN triggerConfettiStorm(Fired(timers))
                        ELSE Fired(timers)
           /\ visible' = IF cb = "quickReset" THEN resetVisible(visible) ELSE visible
           /\ Did(cb)
    /\ UNCHANGED <<variant, isAnimating, calls, app, camera, document, hearts, props>>

\* the ms between two frames of the render loop while the timeline runs, on a
\* host that draws one frame a second: delta is 1 s (written 0)
FrameGaps == {1000}

\* a frame of the render loop (startRenderLoop) between two events of the clock
TimelineFrame ==
    /\ timeline.next > 0
    /\ isAnimating
    /\ \E gap \in FrameGaps :
        /\ timeline.wait >= gap
        /\ timers # <<>> => timers[1].delay >= gap
        /\ timeline' = [timeline EXCEPT !.wait = @ - gap]
        /\ timers' = ElapseBy(timers, gap)
        /\ particles' = updateParticles(particles, MinDelta(0, dtCap))
        /\ lastDt' = {MinDelta(0, dtCap)}
    /\ lastOp' = "animate"
    /\ resets' = 0
    /\ UNCHANGED <<variant, isAnimating, visible, run, calls, app, camera, document, hearts, props>>

InitCycle ==
    /\ InitEngine("sm", createOptimizedParticles)
    /\ timeline = createActionPackedTimeline
    /\ app = NoApp
    /\ document = NoDocument
    /\ hearts = NoHearts
    /\ props = NoProps
    /\ calls = NoCalls
    /\ camera = NoCamera

NextCycle ==
    \/ TimelineCall
    \/ TimerFires
    \/ TimelineFrame

SpecCycle == InitCycle /\ [][NextCycle]_vars

\* the enhanced SceneManager with the calls behind its auto-clear timers followed
InitStale ==
    /\ InitEngine("enh", createEnhancedParticles)
    /\ timeline = NoTimeline
    /\ app = NoApp
    /\ document = NoDocument
    /\ hearts = NoHearts
    /\ props = NoProps
    /\ calls = FirstCalls
    /\ camera = NoCamera

SpecStale == InitStale /\ [][NextEnh]_vars


----------------------------------------------------------------------------
(* BirthdayApp.init() and its loading screen, in the first BirthdayApp ("sm")
   and the enhanced one ("enh") of src/js/main.js.  Nothing that init() awaits
   waits for the host: once init() has been called its continuations run as
   microtasks, before any timer.  progress is a percentage; the increments
   Math.random() * 20 + 10 (15 for 20 in the enhanced app) are drawn from their
   least value, a middle one and the greatest whole one. *)

LoadingIncrements(v) == IF v = "sm" THEN {10, 20, 29} ELSE {10, 17, 24}

firstProgressDelay == 300

progressDelay(v) == IF v = "sm" THEN 200 ELSE 250

showDelay(v) == IF v = "sm" THEN 500 ELSE 600

\* new BirthdayApp()
BirthdayApp == [phase |-> "constructed", isLoaded |-> FALSE, error |-> FALSE,
                progress |-> 0, steps |-> 0, shown |-> 0]

\* progress += increment; if (progress > 100) progress = 100
nextProgressUnclamped(progress, increment) == progress + increment

nextProgress(progress, increment) ==
    IF progress + increment > 100 THEN 100 ELSE progress + increment

\* init() up to its first await: showLoadingScreen() sets the first timer
AppInit ==
    /\ app.phase = "constructed"
    /\ app' = [app EXCEPT !.phase = "components"]
    /\ timers' = SetTimeout(timers, "updateProgress", firstProgressDelay)
    /\ Did("init")
    /\ UNCHANGED <<variant, isAnimating, particles, visible, timeline, calls, camera, document, hearts, props>>

\* the rest of init(): initializeComponents() throws (no canvas, no WebGL) and
\* the catch calls showError, or it builds the scene and the timeline starts
InitSettles ==
    /\ app.phase = "components"
    /\ \E ok \in BOOLEAN :
        IF ok
        THEN /\ app' = [app EXCEPT !.phase = "ready"]
             /\ particles' = Pool(variant)
             /\ isAnimating' = TRUE
             /\ timeline' = createActionPackedTimeline
             /\ Did("startFullAnimationCelebration")
        ELSE /\ app' = [app EXCEPT !.phase = "failed", !.error = TRUE]
             /\ Did("showError")
             /\ UNCHANGED <<particles, isAnimating, timeline>>
    /\ UNCHANGED <<variant, timers, visible, calls, camera, document, hearts, props>>

\* the timer callback updateProgress of showLoadingScreen
UpdateProgress ==
    /\ app.phase \in {"ready", "failed"}
    /\ timers # <<>>
    /\ timers[1].cb = "updateProgress"
    /\ \E increment \in LoadingIncrements(variant) :
        LET progress == nextProgress(app.progress, increment)
        IN  /\ app' = [app EXCEPT !.progress = progress, !.steps = @ + 1]
            /\ timers' = IF progress < 100
                         THEN SetTimeout(Fired(timers), "updateProgress",
                                         progressDelay(variant))
                         ELSE SetTimeout(Fired(timers), "showMainApp", showDelay(variant))
    /\ Did("updateProgress")
    /\ UNCHANGED <<variant, isAnimating, particles, visible, timeline, calls, camera, document, hearts, props>>

\* the last timer of showLoadingScreen: fade out, showMainApp()
ShowMainApp ==
    /\ app.phase \in {"ready", "failed"}
    /\ timers # <<>>
    /\ timers[1].cb = "showMainApp"
    /\ app' = [app EXCEPT !.isLoaded = TRUE, !.shown = @ + 1]
    /\ timers' = Fired(timers)
    /\ Did("showMainApp")
    /\ UNCHANGED <<variant, isAnimating, particles, visible, timeline, calls, camera, document, hearts, props>>

InitLoading ==
    /\ variant \in {"sm", "enh"}
    /\ isAnimating = FALSE
    /\ particles = <<>>
    /\ timers = <<>>
    /\ visible = Hidden
    /\ lastOp = "new"
    /\ lastDt = {}
    /\ run = NoRun
    /\ resets = 0
    /\ timeline = NoTimeline
    /\ app = BirthdayApp
    /\ document = NoDocument
    /\ hearts = NoHearts
    /\ props = NoProps
    /\ calls = NoCalls
    /\ camera = NoCamera

NextLoading ==
    \/ AppInit
    \/ InitSettles
    \/ UpdateProgress
    \/ ShowMainApp

SpecLoading == InitLoading /\ [][NextLoading]_vars

\* the event loop runs every timer that is due
SpecLoadingFair ==
    SpecLoading /\ WF_vars(AppInit) /\ WF_vars(InitSettles)
                /\ WF_vars(UpdateProgress) /\ WF_vars(ShowMainApp)


----------------------------------------------------------------------------
(* cameraShake and the camera.  camera.position is in hundredths of a scene
   unit; (Math.random() - 0.5) * intensity is drawn, for the three axes, from
   two triples of offsets.  The callbacks of cameraShake keep originalPosition
   and intensity, which their timers carry here.  dispose() sets this.camera
   to null, and a callback that then reads this.camera.position throws. *)

cameraPosition == <<0, 400, 800>>

\* setupCamera(), with the camera followed
PerspectiveCamera == [on |-> TRUE, ref |-> TRUE, position |-> cameraPosition,
                      home |-> cameraPosition, thrown |-> FALSE, shakes |-> 0]

shakeSteps == 10

shakeInterval == 50

shakeRestoreDelay == 500

\* intensity, in hundredths, of the calls cameraShake(0.5) and cameraShake(1)
Intensities == {50, 100}

ShakeOffset(draw, intensity) ==
    IF draw = 1 THEN <<-(intensity \div 2), intensity \div 4, 0>>
    ELSE <<intensity \div 4, -(intensity \div 4), -(intensity \div 2)>>

RECURSIVE shakeLoop(_, _, _, _)
shakeLoop(ts, i, originalPosition, intensity) ==
    IF i >= shakeSteps THEN ts
    ELSE shakeLoop(Schedule(ts, [cb |-> "shakeStep", delay |-> i * shakeInterval,
                                 originalPosition |-> originalPosition,
                                 intensity |-> intensity]),
                   i + 1, originalPosition, intensity)

cameraShake(ts, cam, intensity) ==
    IF ~cam.ref THEN ts
    ELSE Schedule(shakeLoop(ts, 0, cam.position, intensity),
                  [cb |-> "shakeRestore", delay |-> shakeRestoreDelay,
                   originalPosition |-> cam.position, intensity |-> intensity])

ShakePending ==
    \E k \in DOMAIN timers : timers[k].cb \in {"shakeStep", "shakeRestore"}

CameraShake ==
    /\ camera.on
    /\ camera.shakes < MaxShakes
    /\ \E e \in Elapsed(timers), intensity \in Intensities :
        timers' = cameraShake(ElapseBy(timers, e), camera, intensity)
    /\ camera' = [camera EXCEPT !.home = IF ShakePending THEN @ ELSE camera.position,
                                !.shakes = @ + 1]
    /\ Did("cameraShake")
    /\ UNCHANGED <<page, calls, variant, isAnimating, particles, visible>>

\* one of the ten timers of the loop
ShakeStep ==
    /\ camera.on
    /\ timers # <<>>
    /\ timers[1].cb = "shakeStep"
    /\ \E draw \in Draws :
        camera' = IF camera.ref
                  THEN [camera EXCEPT !.position =
                            VecAdd(timers[1].originalPosition,
                                   ShakeOffset(draw, timers[1].intensity))]
                  ELSE [camera EXCEPT !.thrown = TRUE]
    /\ timers' = Fired(timers)
    /\ Did("shakeStep")
    /\ UNCHANGED <<page, calls, variant, isAnimating, particles, visible>>

\* the timer that copies originalPosition back
ShakeRestore ==
    /\ camera.on
    /\ timers # <<>>
    /\ timers[1].cb = "shakeRestore"
    /\ camera' = IF camera.ref
                 THEN [camera EXCEPT !.position = timers[1].originalPosition]
                 ELSE [camera EXCEPT !.thrown = TRUE]
    /\ timers' = Fired(timers)
    /\ Did("shakeRestore")
    /\ UNCHANGED <<page, calls, variant, isAnimating, particles, visible>>

InitShake ==
    /\ InitEngine("sm", createOptimizedParticles)
    /\ timeline = NoTimeline
    /\ app = NoApp
    /\ document = NoDocument
    /\ hearts = NoHearts
    /\ props = NoProps
    /\ calls = NoCalls
    /\ camera = PerspectiveCamera

NextShake ==
    \/ CameraShake
    \/ ShakeStep
    \/ ShakeRestore

SpecShake == InitShake /\ [][NextShake]_vars

NextUnmount ==
    \/ CameraShake
    \/ ShakeStep
    \/ ShakeRestore
    \/ TriggerConfettiStorm
    \/ StormWave
    \/ Dispose

SpecUnmount == InitShake /\ [][NextUnmount]_vars


----------------------------------------------------------------------------
(* The bootstrap of src/unnamed/part_001.  The script is evaluated once, in
   whatever state the document is then; every new BirthdayApp() runs init(),
   which builds its own particle pool and starts its own render loop.  The
   engine variables follow the pool built last. *)

\* the document starts to load; the script has not run
HTMLDocument == [readyState |-> "loading", evaluated |-> FALSE, fired |-> FALSE,
                 listeners |-> 0, apps |-> 0, loops |-> 0]

\* the parser has reached the end of the document
ParsingEnds ==
    /\ document.readyState = "loading"
    /\ document' = [document EXCEPT !.readyState = "interactive"]
    /\ Did("readystatechange")
    /\ UNCHANGED <<variant, isAnimating, particles, timers, visible, timeline, app,
                   calls, camera, hearts, props>>

\* the top level of the script: a listener, then the listener of the fallback
\* or a direct new BirthdayApp()
EvaluateScript ==
    /\ document.readyState # "none"
    /\ ~document.evaluated
    /\ document' = IF document.readyState = "loading"
                   THEN [document EXCEPT !.evaluated = TRUE, !.listeners = @ + 2]
                   ELSE [document EXCEPT !.evaluated = TRUE, !.listeners = @ + 1,
                                         !.apps = @ + 1]
    /\ Did("script")
    /\ UNCHANGED <<variant, isAnimating, particles, timers, visible, timeline, app,
                   calls, camera, hearts, props>>

\* the event runs every listener registered before it
DOMContentLoaded ==
    /\ document.readyState = "interactive"
    /\ ~document.fired
    /\ document' = [document EXCEPT !.fired = TRUE, !.apps = @ + document.listeners]
    /\ Did("DOMContentLoaded")
    /\ UNCHANGED <<variant, isAnimating, particles, timers, visible, timeline, app,
                   calls, camera, hearts, props>>

WindowLoad ==
    /\ document.readyState = "interactive"
    /\ document.fired
    /\ document' = [document EXCEPT !.readyState = "complete"]
    /\ Did("load")
    /\ UNCHANGED <<variant, isAnimating, particles, timers, visible, timeline, app,
                   calls, camera, hearts, props>>

\* init() of one of the apps reaches initializeScene and startExperience
InitializeScene ==
    /\ document.loops < document.apps
    /\ document' = [document EXCEPT !.loops = @ + 1]
    /\ \E draw \in Draws : particles' = createParticlesApp(draw)
    /\ Did("initializeScene")
    /\ UNCHANGED <<variant, isAnimating, timers, visible, timeline, app, calls, camera, hearts, props>>

InitBoot ==
    /\ InitEngine("app", <<>>)
    /\ timeline = NoTimeline
    /\ app = NoApp
    /\ document = HTMLDocument
    /\ hearts = NoHearts
    /\ props = NoProps
    /\ calls = NoCalls
    /\ camera = NoCamera

NextBoot ==
    \/ ParsingEnds
    \/ EvaluateScript
    \/ DOMContentLoaded
    \/ WindowLoad
    \/ InitializeScene
    \/ document.loops > 0 /\ CreateParticleBurstApp
    \/ document.loops > 0 /\ UpdateApp

SpecBoot == InitBoot /\ [][NextBoot]_vars


----------------------------------------------------------------------------
(* The falling hearts of the enhanced SceneManager.  setInterval is a timer
   that is set again each time it fires, until clearInterval takes it out of
   the queue; handles are the numbers 1, 2, ..  A heart is the number it was
   made as.  stopFallingHearts is called by the timer of startFallingHearts
   and, at any time, by clearActiveAnimations and the message's onComplete. *)

heartTickInterval == 800

heartsPerTick == 3

heartStagger == 200

heartsStopDelay == 8000

heartLifetime == 5000

\* the element 'falling-hearts' is in the page, empty, and no interval runs
FallingHearts == [on |-> TRUE, interval |-> 0, running |-> {}, container |-> {},
                  made |-> 0, starts |-> 0, stopped |-> FALSE, late |-> FALSE]

\* clearInterval(handle)
ClearInterval(ts, handle) ==
    SelectSeq(ts, LAMBDA t : ~(t.cb = "heartTick" /\ t.handle = handle))

\* the setInterval callback: the staggered timeouts of one wave
RECURSIVE heartWave(_, _)
heartWave(ts, i) ==
    IF i >= heartsPerTick THEN ts
    ELSE heartWave(SetTimeout(ts, "createFallingHeart", i * heartStagger), i + 1)

stopFallingHearts(h) ==
    [h EXCEPT !.interval = 0,
              !.running = @ \ {h.interval},
              !.container = {},
              !.stopped = TRUE]

StartFallingHearts ==
    /\ hearts.on
    /\ hearts.starts < MaxStarts
    /\ LET handle == hearts.starts + 1
       IN  /\ \E e \in Elapsed(timers) :
                timers' = SetTimeout(Schedule(ElapseBy(timers, e),
                                              [cb |-> "heartTick",
                                               delay |-> heartTickInterval,
                                               handle |-> handle]),
                                     "stopFallingHearts", heartsStopDelay)
           /\ hearts' = [hearts EXCEPT !.interval = handle,
                                       !.running = @ \cup {handle},
                                       !.starts = handle,
                                       !.stopped = FALSE]
    /\ Did("startFallingHearts")
    /\ UNCHANGED <<variant, isAnimating, particles, visible, timeline, app, document,
                   calls, camera, props>>

HeartTick ==
    /\ hearts.on
    /\ timers # <<>>
    /\ timers[1].cb = "heartTick"
    /\ hearts.made + heartsPerTick <= MaxHearts
    /\ timers' = Schedule(heartWave(Fired(timers), 0),
                          [timers[1] EXCEPT !.delay = heartTickInterval])
    /\ Did("heartTick")
    /\ UNCHANGED <<variant, isAnimating, particles, visible, timeline, app, document,
                   hearts, calls, camera, props>>

CreateFallingHeart ==
    /\ hearts.on
    /\ timers # <<>>
    /\ timers[1].cb = "createFallingHeart"
    /\ LET heart == hearts.made + 1
       IN  /\ hearts' = [hearts EXCEPT !.container = @ \cup {heart},
                                       !.made = heart,
                                       !.late = @ \/ hearts.stopped]
           /\ timers' = Schedule(Fired(timers), [cb |-> "removeChild",
                                                 delay |-> heartLifetime,
                                                 heart |-> heart])
    /\ Did("createFallingHeart")
    /\ UNCHANGED <<variant, isAnimating, particles, visible, timeline, app, document,
                   calls, camera, props>>

\* if (container.contains(heart)) container.removeChild(heart)
RemoveHeart ==
    /\ hearts.on
    /\ timers # <<>>
    /\ timers[1].cb = "removeChild"
    /\ hearts' = [hearts EXCEPT !.container = @ \ {timers[1].heart}]
    /\ timers' = Fired(timers)
    /\ Did("removeChild")
    /\ UNCHANGED <<variant, isAnimating, particles, visible, timeline, app, document,
                   calls, camera, props>>

\* the timer of startFallingHearts is due
HeartsTimeout ==
    /\ hearts.on
    /\ timers # <<>>
    /\ timers[1].cb = "stopFallingHearts"
    /\ hearts' = stopFallingHearts(hearts)
    /\ timers' = ClearInterval(Fired(timers), hearts.interval)
    /\ Did("stopFallingHearts")
    /\ UNCHANGED <<variant, isAnimating, particles, visible, timeline, app, document,
                   calls, camera, props>>

\* stopFallingHearts() called from clearActiveAnimations or onComplete
StopFallingHearts ==
    /\ hearts.on
    /\ hearts.starts > 0
    /\ hearts' = stopFallingHearts(hearts)
    /\ \E e \in Elapsed(timers) :
        timers' = ClearInterval(ElapseBy(timers, e), hearts.interval)
    /\ Did("stopFallingHearts")
    /\ UNCHANGED <<variant, isAnimating, particles, visible, timeline, app, document,
                   calls, camera, props>>

InitHearts ==
    /\ InitEngine("enh", createEnhancedParticles)
    /\ timeline = NoTimeline
    /\ app = NoApp
    /\ document = NoDocument
    /\ hearts = FallingHearts
    /\ props = NoProps
    /\ calls = NoCalls
    /\ camera = NoCamera

NextHearts ==
    \/ StartFallingHearts
    \/ HeartTick
    \/ CreateFallingHeart
    \/ RemoveHeart
    \/ HeartsTimeout
    \/ StopFallingHearts

SpecHearts == InitHearts /\ [][NextHearts]_vars


----------------------------------------------------------------------------
(* Clicks on the balloons and the candle flames of src/js/scene/SceneManager.js.
   The raycaster hands handleClick an object that is in the scene.  A balloon
   stands where a burst of BurstPositionsScene is made.  The frames of the
   render loop write neither flag; what they do to a burst is followed in
   SpecScene. *)

Balloons == 1..MaxBalloons

Candles == 1..MaxCandles

\* createBalloons and createCandles: userData.popped = false, userData.lit = true
createProps == [on |-> TRUE,
                popped |-> [b \in Balloons |-> FALSE],
                lit |-> [c \in Candles |-> TRUE],
                gone |-> {},
                pops |-> [b \in Balloons |-> 0],
                bursts |-> [b \in Balloons |-> 0],
                blows |-> [c \in Candles |-> 0],
                ignored |-> FALSE]

BalloonPosition(b) == IF b % 2 = 1 THEN <<0, 1600, 0>> ELSE <<749, 1999, -749>>

\* a count of callbacks, followed up to 2
Once(n) == IF n < 2 THEN n + 1 ELSE 2

\* popBalloon without its first line
popBalloonAgain(pr, b) ==
    [pr EXCEPT !.popped[b] = TRUE, !.pops[b] = Once(@), !.bursts[b] = Once(@)]

popBalloon(pr, b) ==
    IF pr.popped[b] THEN [pr EXCEPT !.ignored = TRUE]
    ELSE [pr EXCEPT !.popped[b] = TRUE, !.pops[b] = Once(@), !.bursts[b] = Once(@)]

blowCandle(pr, c) ==
    IF ~pr.lit[c] THEN [pr EXCEPT !.ignored = TRUE]
    ELSE [pr EXCEPT !.lit[c] = FALSE, !.blows[c] = Once(@)]

\* handleClick(intersection): a balloon, a flame or the cake
HandleClick ==
    /\ props.on
    /\ \/ \E b \in Balloons \ props.gone :
            /\ props' = popBalloon(props, b)
            /\ \E draw \in Draws :
                particles' = IF props'.bursts[b] > props.bursts[b]
                             THEN createParticleBurstScene(particles,
                                                           BalloonPosition(b), draw)
                             ELSE particles
            /\ Did("popBalloon")
       \/ \E c \in Candles :
            /\ props' = blowCandle(props, c)
            /\ particles' = particles
            /\ Did("blowCandle")
       \/ /\ UNCHANGED <<props, particles>>
          /\ Did("triggerCakeInteraction")
    /\ UNCHANGED <<variant, isAnimating, timers, visible, timeline, app, document,
                   hearts, calls, camera>>

\* onComplete of the pop tween: this.scene.remove(balloon)
PopComplete ==
    /\ props.on
    /\ \E b \in Balloons \ props.gone :
        /\ props.popped[b]
        /\ props' = [props EXCEPT !.gone = @ \cup {b}]
    /\ Did("onComplete")
    /\ UNCHANGED <<variant, isAnimating, particles, timers, visible, timeline, app,
                   document, hearts, calls, camera>>

InitClicks ==
    /\ \E draw \in Draws : InitEngine("scene", createParticlesScene(draw))
    /\ timeline = NoTimeline
    /\ app = NoApp
    /\ document = NoDocument
    /\ hearts = NoHearts
    /\ props = createProps
    /\ calls = NoCalls
    /\ camera = NoCamera

NextClicks ==
    \/ HandleClick
    \/ PopComplete

SpecClicks == InitClicks /\ [][NextClicks]_vars

----------------------------------------------------------------------------
(* The claims *)

AtRest(p) == ~p.active /\ p.opacity = BigZero /\ p.position = p.originalPosition

\* C1: Park invariant.  In every state of src/js/sceneManager.js reachable by
\* triggerMegaConfetti, triggerGentleConfetti, fired storm waves, quickReset
\* and update, every inactive particle is at its originalPosition with
\* opacity 0.
ParkInvariant ==
    \A i \in DOMAIN particles :
        ~particles[i].active =>
            /\ particles[i].position = particles[i].originalPosition
            /\ particles[i].opacity = BigZero

\* an update has retired a particle that a burst had moved away from its rest
\* position, while others are still in flight
ParkWitness ==
    /\ lastOp = "update"
    /\ \E i \in DOMAIN particles :
        ~particles[i].active /\ particles[i].velocity # <<0, 0, 0>>
    /\ \E i \in DOMAIN particles : particles[i].active

PoolSize(v) == IF v = "sm" THEN maxParticles ELSE maxParticlesEnh

\* C2: Pool conservation.  After any sequence of trigger, update, clearConfetti
\* and quickReset operations the pool has exactly the particles created at
\* initialization, and so no more active particles than its size.
PoolConservation ==
    /\ Len(particles) = PoolSize(variant)
    /\ ActiveCount(particles) <= PoolSize(variant)

\* triggerGentleConfetti has claimed part of a pool in which other particles
\* have flown and been retired before
PoolWitness ==
    /\ lastOp = "triggerGentleConfetti"
    /\ ActiveCount(particles) > 0
    /\ ActiveCount(particles) < Len(particles)
    /\ \E i \in DOMAIN particles :
        ~particles[i].active /\ particles[i].velocity # <<0, 0, 0>>

\* C3: Bounded lifetime.  After triggerMegaConfetti and then nothing but
\* update(dt) of one dt, every particle is inactive once
\* ceil(1 / (0.4 * dt)) updates have run.
BoundedLifetime ==
    \A dt \in run.dt :
        run.n >= FadeBound(dt) => \A i \in DOMAIN particles : ~particles[i].active

\* C4, as the code has it: an update of the enhanced SceneManager retires an
\* active particle exactly when, after the frame's position and fade steps,
\* position.y < -10 or opacity <= 0.1; every other active particle stays
\* active.
RetirementEnh ==
    [][(variant = "enh" /\ lastOp' = "update") =>
        \A dt \in lastDt' : \A i \in DOMAIN particles :
            particles[i].active =>
                LET m == moveParticleEnh(particles[i], dt)
                IN  ~particles'[i].active <=>
                        (m.position[2] < FLOOR_Y_ENH \/ BigLeq(m.opacity, Fl01))]_vars

\* C4, as claimed: the retirement test on the opacity is opacity <= 0.
RetirementAtZero ==
    [][(variant = "enh" /\ lastOp' = "update") =>
        \A dt \in lastDt' : \A i \in DOMAIN particles :
            particles[i].active =>
                LET m == moveParticleEnh(particles[i], dt)
                IN  ~particles'[i].active <=>
                        (m.position[2] < FLOOR_Y_ENH \/ BigLeq(m.opacity, BigZero))]_vars

\* updates have brought a particle in flight to where one more second fades
\* it to an opacity above 0 and no more than 0.1, and another to where it
\* stays above 0.1
RetirementWitness ==
    /\ variant = "enh"
    /\ lastOp = "update"
    /\ \E i \in DOMAIN particles :
        /\ particles[i].active
        /\ BigLess(BigZero, moveParticleEnh(particles[i], 0).opacity)
        /\ BigLeq(moveParticleEnh(particles[i], 0).opacity, Fl01)
        /\ moveParticleEnh(particles[i], 0).position[2] >= FLOOR_Y_ENH
    /\ \E i \in DOMAIN particles :
        /\ particles[i].active
        /\ BigLess(Fl01, moveParticleEnh(particles[i], 0).opacity)

\* C6: quickReset, in whatever state it is called, leaves every particle
\* inactive, with opacity 0, at its originalPosition.
QuickResetParks ==
    lastOp = "quickReset" => \A i \in DOMAIN particles : AtRest(particles[i])

\* quickReset has run on a pool whose particles had been in flight
QuickResetWitness ==
    /\ lastOp = "quickReset"
    /\ resets = 1
    /\ \E i \in DOMAIN particles : particles[i].velocity # <<0, 0, 0>>

\* C7: Idempotent reset.  A quickReset that follows a quickReset changes
\* neither the pool nor the visibility of balloons, cake, text and stars.
IdempotentReset ==
    [][(lastOp = "quickReset" /\ lastOp' = "quickReset") =>
        (particles' = particles /\ visible' = visible)]_vars

\* quickReset has run twice in a row after the timeline had shown the scene
\* and confetti had flown
IdempotentWitness ==
    /\ lastOp = "quickReset"
    /\ resets = 2
    /\ \E i \in DOMAIN particles : particles[i].velocity # <<0, 0, 0>>

\* C8: Confetti burst.  Right after triggerMegaConfetti on the pool of 60, all
\* 60 particles are active with opacity 1 at the burst origin (0,8,0),
\* whatever they were before.
BurstClaimsAll ==
    (variant = "sm" /\ lastOp \in {"triggerMegaConfetti", "stormWave"}) =>
        /\ Len(particles) = 60
        /\ \A i \in DOMAIN particles :
            /\ particles[i].active
            /\ particles[i].opacity = FlOne
            /\ particles[i].position = <<0, 800, 0>>

\* the second wave of a storm has burst over the particles of the first
BurstWitness ==
    /\ variant = "sm"
    /\ lastOp = "stormWave"
    /\ Len(timers) = stormWaves - 2
    /\ \A i \in DOMAIN particles : particles[i].active

GentleCapOf(v) == IF v = "sm" THEN 25 ELSE 30

\* C10: Rain cap.  One triggerGentleConfetti call changes at most its cap of
\* particles, 25 in sceneManager.js and 30 in the enhanced SceneManager, and
\* leaves the others as they were.
RainCap ==
    [][lastOp' = "triggerGentleConfetti" =>
        Cardinality({i \in DOMAIN particles : particles'[i] # particles[i]})
            <= GentleCapOf(variant)]_vars

\* C9: Burst density cap.  One createParticleBurst call of
\* src/js/scene/SceneManager.js activates at most 15 particles.
BurstDensityCap ==
    [][(variant = "scene" /\ lastOp' = "createParticleBurst") =>
        Cardinality({i \in DOMAIN particles :
                        ~particles[i].active /\ particles'[i].active}) <= 15]_vars

\* C5: Parking on natural retirement in part_001.  Whenever updateParticles
\* retires a particle, the particle is afterwards at the position it was
\* created at, with opacity 0.
RetirementParksApp ==
    [][(variant = "app" /\ lastOp' = "update") =>
        \A i \in DOMAIN particles :
            (particles[i].active /\ ~particles'[i].active) =>
                /\ particles'[i].position = particles'[i].originalPosition
                /\ particles'[i].opacity = BigZero]_vars

\* C11: No storm cancellation.  quickReset of src/js/sceneManager.js leaves
\* the storm waves still pending as they are; a wave is taken off the queue
\* only as it fires, and it then activates the whole pool again; and while
\* waves are pending, after a reset as at any other time, one more of them
\* fires (after a wave the next one, which makes the number pending odd if
\* it was even and even if it was odd).
NoStormCancellation ==
    /\ [][(lastOp' = "quickReset" => timers' = timers)
           /\ (Len(timers') < Len(timers) => lastOp' = "stormWave")
           /\ (lastOp' = "stormWave" =>
                  /\ Len(timers') = Len(timers) - 1
                  /\ \A i \in DOMAIN particles : particles'[i].active)]_vars
    /\ (timers # <<>> /\ lastOp # "stormWave")
          ~> (lastOp = "stormWave" /\ \A i \in DOMAIN particles : particles[i].active)
    /\ \A odd \in BOOLEAN :
          (lastOp = "stormWave" /\ timers # <<>> /\ (Len(timers) % 2 = 1) = odd)
              ~> (lastOp # "stormWave" \/ (Len(timers) % 2 = 1) # odd)

\* quickReset has parked the pool between two waves of a storm
StormPendingWitness ==
    /\ lastOp = "quickReset"
    /\ timers # <<>>
    /\ Len(timers) < stormWaves
    /\ \A i \in DOMAIN particles : AtRest(particles[i])
    /\ \E i \in DOMAIN particles : particles[i].velocity # <<0, 0, 0>>

\* the storm waves pending in a timer queue
Waves(ts) == Len(SelectSeq(ts, LAMBDA t : t.cb = "triggerMegaConfetti"))

WaveCount(v) == IF v = "sm" THEN 5 ELSE 6

WaveInterval(v) == IF v = "sm" THEN 300 ELSE 500

\* what a step does to the storm waves, by the operation it is
StormStep ==
    /\ (lastOp' = "triggerConfettiStorm") =>
         (/\ Waves(timers') = Waves(timers) + WaveCount(variant)
          /\ Len(timers') = Len(timers) + WaveCount(variant)
          /\ \A w \in 0..(WaveCount(variant) - 1) :
                \E k \in DOMAIN timers' :
                    /\ timers'[k].cb = "triggerMegaConfetti"
                    /\ timers'[k].delay = w * WaveInterval(variant)
          /\ particles' = particles
          /\ visible' = visible)
    /\ (lastOp' = "stormWave") =>
         (/\ timers[1].cb = "triggerMegaConfetti"
          /\ Waves(timers') = Waves(timers) - 1
          /\ \A i \in DOMAIN particles :
                particles'[i].active /\ particles'[i].opacity = FlOne)
    /\ (lastOp' \notin {"triggerConfettiStorm", "stormWave"}) =>
         (Waves(timers') = Waves(timers))
    /\ \A k \in DOMAIN timers' :
          (k > 1) => (timers'[k - 1].delay <= timers'[k].delay)

\* C12: Storm is a scheduled sequence of bursts.  One triggerConfettiStorm
\* call registers exactly waveCount triggerMegaConfetti timers (5 in
\* sceneManager.js, 6 in the enhanced SceneManager), one at each multiple of
\* the wave interval, and changes nothing else: no particle is touched inside
\* the call.  The queue fires in order of delay, every firing of a wave takes
\* exactly one wave off it and bursts the whole pool, nothing else adds or
\* removes a wave, and while waves are pending one more of them fires.
StormIsScheduledBursts ==
    /\ [][StormStep]_vars
    /\ (Waves(timers) > 0 /\ lastOp # "stormWave") ~> (lastOp = "stormWave")
    /\ \A k \in 1..MaxTimersEnh :
          (lastOp = "stormWave" /\ Waves(timers) = k)
              ~> (Waves(timers) = k - 1 \/ lastOp # "stormWave")

\* the sixth and last wave of a storm of the enhanced SceneManager has
\* fired, the auto-clears of all six waves still pending
StormWitness ==
    /\ variant = "enh"
    /\ lastOp = "stormWave"
    /\ Waves(timers) = 0
    /\ Len(timers) = stormWavesEnh
    /\ \A i \in DOMAIN particles : particles[i].active

\* C13: Only the storm schedules deferred work.  triggerMegaConfetti and
\* triggerGentleConfetti leave the timer queue as they found it, and a step
\* that changes the pool is an update, a quickReset or a trigger (called
\* directly or as a storm wave).
OnlyStormDefers ==
    [][/\ (lastOp' \in {"triggerMegaConfetti", "triggerGentleConfetti"}) =>
            (timers' = timers)
       /\ (particles' # particles) =>
            (lastOp' \in {"update", "quickReset", "triggerMegaConfetti",
                          "triggerGentleConfetti", "stormWave"})]_vars

\* C14: Opacity never re-brightens in flight.  An update of
\* src/js/sceneManager.js leaves the opacity of every particle that was
\* active before it no greater than it was, and a step that raises the
\* opacity of a particle is a trigger (called directly or as a storm wave)
\* that leaves the particle active.
NoRebrighten ==
    [][/\ (lastOp' = "update") =>
            (\A i \in DOMAIN particles :
                particles[i].active =>
                    BigLeq(particles'[i].opacity, particles[i].opacity))
       /\ \A i \in DOMAIN particles :
            BigLess(particles[i].opacity, particles'[i].opacity) =>
                /\ lastOp' \in {"triggerMegaConfetti", "triggerGentleConfetti",
                                "stormWave"}
                /\ particles'[i].active]_vars

\* an update has dimmed a particle that is still in flight, to less than the
\* opacity a trigger gives
DimmedWitness ==
    /\ variant = "sm"
    /\ lastOp = "update"
    /\ \E i \in DOMAIN particles :
        /\ particles[i].active
        /\ BigLess(BigZero, particles[i].opacity)
        /\ BigLess(particles[i].opacity, Fl08)

InUnitRange(x) ==
    /\ x[1] >= 0
    /\ x[2] \in 0..(Limb - 1)
    /\ x[3] \in 0..(Limb - 1)
    /\ BigLeq(x, FlOne)

\* C16: Opacity range.  In every state between operations (after a trigger,
\* an update, clearConfetti or quickReset has returned) the opacity of every
\* particle is in [0,1], in sceneManager.js and the enhanced SceneManager as
\* in part_000 and part_001, whose fade subtracts without clamping.
OpacityRange ==
    \A i \in DOMAIN particles : InUnitRange(particles[i].opacity)

\* in part_001 an update of 2 s has retired particles that were in flight,
\* where they stopped
OpacityRangeWitness ==
    /\ variant = "app"
    /\ lastOp = "update"
    /\ lastDt = {-1}
    /\ \E i \in DOMAIN particles :
        /\ ~particles[i].active
        /\ particles[i].opacity = BigZero
        /\ particles[i].position # particles[i].originalPosition

\* C17: Settle to floor with explicit Euler ordering.  An update of
\* src/js/sceneManager.js moves an active particle by the velocity it had
\* before the frame's gravity and drag, and retires and parks it in the first
\* update that takes it below the floor, whatever opacity it has left; the
\* particle at height 1 with velocity (0,-5,0) is still in flight, at height
\* -4, after one update of 1 s and parked after the second.
SettleToFloor ==
    [][\A dt \in lastDt' : \A i \in DOMAIN particles :
        particles[i].active =>
            LET p == particles[i]
                q == particles'[i]
                dx == IF dt = 0 THEN p.velocity[1] ELSE 2 * p.velocity[1]
                dy == IF dt = 0 THEN p.velocity[2] ELSE 2 * p.velocity[2]
                dz == IF dt = 0 THEN p.velocity[3] ELSE 2 * p.velocity[3]
            IN  /\ q.active =>
                      /\ q.position = <<p.position[1] + dx, p.position[2] + dy,
                                        p.position[3] + dz>>
                      /\ q.position[2] >= -800
                /\ (p.position[2] + dy < -800) => AtRest(q)
                /\ (p.position = <<0, 100, 0>> /\ p.velocity = <<0, -500, 0>>
                        /\ p.opacity = FlOne /\ dt = 0) =>
                      (q.active /\ q.position = <<0, -400, 0>>)
                /\ (p.position = <<0, -400, 0>> /\ p.velocity[2] < -500
                        /\ dt = 0) => AtRest(q)]_vars

\* the particle that started at height 1 with velocity (0,-5,0) has been
\* parked by its second update of 1 s, which found it at opacity 0.6
SettleWitness ==
    /\ lastOp = "update"
    /\ lastDt = {0}
    /\ AtRest(particles[1])
    /\ particles[1].velocity = <<0, -2032, 0>>

\* C15: update changes only active particles.  An update of sceneManager.js
\* or of scene/SceneManager.js leaves every particle that was inactive before
\* it with the same position, velocity, rotation, opacity and active flag.
UpdateSparesInactive ==
    [][(lastOp' = "update") =>
        \A i \in DOMAIN particles :
            ~particles[i].active =>
                /\ particles'[i].position = particles[i].position
                /\ particles'[i].velocity = particles[i].velocity
                /\ particles'[i].rotation = particles[i].rotation
                /\ particles'[i].opacity = particles[i].opacity
                /\ particles'[i].active = particles[i].active]_vars

\* an update has turned the particles in flight once more and passed over
\* inactive ones that had flown and turned before
UpdateSparesWitness ==
    /\ lastOp = "update"
    /\ \E i, j \in DOMAIN particles :
        /\ ~particles[i].active
        /\ particles[i].rotation > 0
        /\ particles[j].active
        /\ particles[j].rotation > particles[i].rotation

\* deltaTime, 2^-n seconds or a number of ms, is no more than 0.05 s
AtMostCap(n) == IF n >= 10 THEN n <= 50 ELSE n >= 0 /\ 50 * Pow2(n) >= 1000

\* C19: Host-side clamping.  In the render loop of every variant the
\* deltaTime handed to update is never more than 0.05 s.
HostClamps ==
    lastOp = "animate" => \A dt \in lastDt : AtMostCap(dt)

\* C20: Disposal releases the pool.  Once dispose() has returned,
\* objects.particles is empty, and so no trigger or update after it changes
\* a particle.
DisposeReleasesPool ==
    /\ [](~isAnimating => particles = <<>>)
    /\ [][~isAnimating => particles' = particles]_vars

(* C21: in the repeating timeline the quickReset that resetForNextRound defers
   runs before explodeWelcome of the next cycle: when explodeWelcome runs no
   quickReset is pending, and a quickReset runs only between resetForNextRound
   and the next explodeWelcome, so what explodeWelcome shows stays shown until
   the reset of its own cycle. *)
ResetPending == \E k \in DOMAIN timers : timers[k].cb = "quickReset"

ResetStep ==
    /\ lastOp' = "explodeWelcome" => ~ResetPending'
    /\ lastOp' = "quickReset" => timeline'.next = 1

ResetPrecedesNextCycle == [][ResetStep]_vars

(* C22: in the enhanced SceneManager an auto-clear timer deactivates only
   particles that the trigger call which set this timer activated: when a
   clearConfetti timer fires, every particle that is active was activated by
   the call behind that timer and by no later call. *)
StaleStep ==
    lastOp' = "clearConfetti" =>
        \A i \in DOMAIN particles : particles[i].active => i \in calls.own[1]

NoStaleAutoClear == [][StaleStep]_vars

(* C23: BirthdayApp.isLoaded is true only once initializeComponents has
   completed: an app whose initialization failed, and which shows the error,
   is never loaded. *)
LoadedImpliesInitialized == app.isLoaded => app.phase = "ready" /\ ~app.error

(* C29: the progress of the loading screen never decreases and never exceeds
   100, it is 100 after at most 10 updateProgress steps, no updateProgress is
   pending once it is 100, and showMainApp is then called, once and only
   once. *)
ProgressPending == \E k \in DOMAIN timers : timers[k].cb = "updateProgress"

LoadingStep ==
    /\ app'.progress >= app.progress
    /\ app'.shown > app.shown => app.progress = 100

LoadingTerminates ==
    /\ [](/\ app.progress <= 100
          /\ app.steps <= 10
          /\ app.steps = 10 => app.progress = 100
          /\ app.progress = 100 => ~ProgressPending
          /\ app.shown <= 1)
    /\ [][LoadingStep]_vars
    /\ <>(app.shown = 1)

LoadingWitness == app.shown = 1 /\ app.steps = 10 /\ app.progress = 100

(* C26: once every timer of every outstanding cameraShake call has fired, the
   camera is where it was before the first of those calls, whether or not the
   calls overlapped. *)
ShakeNeutral == (camera.ref /\ ~ShakePending) => camera.position = camera.home

(* C24: no callback that SceneManager has scheduled throws for reading a
   reference that dispose() has set to null. *)
DisposeSafe == ~camera.thrown

(* C25: in part_001 one page load constructs exactly one BirthdayApp, in
   whatever state the document is when the script runs: never more than one
   app, one render loop and one pool, and one app once the script has run and
   DOMContentLoaded has fired. *)
SingleInstance ==
    /\ document.apps <= 1
    /\ document.loops <= 1
    /\ (document.evaluated /\ document.fired) => document.apps = 1

(* C27: after stopFallingHearts has returned no heart is added to the
   container until startFallingHearts is called again, and at most one heart
   interval runs at any time. *)
HeartsStopWhenStopped == ~hearts.late /\ Cardinality(hearts.running) <= 1

(* C28: over any sequence of clicks a balloon's popped flag goes from false to
   true at most once and never back, its 'balloonPop' callback and its burst
   happen at most once; a flame's lit flag goes from true to false at most
   once and never back, and 'candleBlow' is emitted at most once per candle. *)
OneShotState ==
    /\ \A b \in Balloons :
        /\ props.pops[b] <= 1
        /\ props.bursts[b] <= 1
        /\ props.popped[b] <=> props.pops[b] = 1
    /\ \A c \in Candles :
        /\ props.blows[c] <= 1
        /\ props.lit[c] <=> props.blows[c] = 0

OneShotStep ==
    /\ \A b \in Balloons :
        /\ props.popped[b] => props'.popped[b]
        /\ props'.pops[b] >= props.pops[b]
        /\ props'.pops[b] > props.pops[b] => ~props.popped[b] /\ lastOp' = "popBalloon"
    /\ \A c \in Candles :
        /\ ~props.lit[c] => ~props'.lit[c]
        /\ props'.blows[c] > props.blows[c] => props.lit[c] /\ lastOp' = "blowCandle"

OneShotInteractions == []OneShotState /\ [][OneShotStep]_vars

OneShotWitness ==
    /\ props.on
    /\ props.ignored
    /\ \A b \in Balloons : props.popped[b]
    /\ \A c \in Candles : ~props.lit[c]

====
